---- MODULE Spec2Model ----
(***************************************************************************)
(* wash: a line-oriented shell over a capability filesystem (src/main.rs). *)
(* Strings are sequences of one-character strings; the parser, the path    *)
(* join and the filesystem walk work on those sequences as the code works  *)
(* on bytes.                                                               *)
(***************************************************************************)
EXTENDS Integers, Sequences, FiniteSets, TLC

(***************************************************************************)
(* Bounds of the model.                                                    *)
(***************************************************************************)
\* longest working-directory string the model lets `cd` adopt
MaxPathLen == 5
\* number of peers that may connect to the listener
MaxConns == 2
\* longest string given to unquote
MaxQuoteLen == 6

(***************************************************************************)
(* Text helpers (str::trim, split_once, rsplit_once, strip_prefix/suffix). *)
(***************************************************************************)
None == <<>>
Some(v) == <<v>>

\* char::is_whitespace, restricted to the characters the inputs use
IsWhitespace(c) == c \in {" ", "\t"}

\* char::is_alphanumeric, restricted to ASCII
IsAlphanumeric(c) ==
    c \in {"a","b","c","d","e","f","g","h","i","j","k","l","m","n","o","p","q",
           "r","s","t","u","v","w","x","y","z","0","1","2","3","4","5","6","7",
           "8","9"}

RECURSIVE TrimStart(_)
TrimStart(s) ==
    IF s # <<>> /\ IsWhitespace(Head(s)) THEN TrimStart(Tail(s)) ELSE s

RECURSIVE TrimEnd(_)
TrimEnd(s) ==
    IF s # <<>> /\ IsWhitespace(s[Len(s)])
    THEN TrimEnd(SubSeq(s, 1, Len(s) - 1))
    ELSE s

\* a plausible slip: trim_start where trim is meant
Trim_StartOnly(s) == TrimStart(s)

\* str::trim
Trim(s) == TrimEnd(TrimStart(s))

\* positions of character c in s
Positions(s, c) == {i \in 1..Len(s) : s[i] = c}

Min(S) == CHOOSE x \in S : \A y \in S : x <= y
Max(S) == CHOOSE x \in S : \A y \in S : x >= y

\* str::split_once(c): None, or Some(<<before, after>>) around the first c
SplitOnce(s, c) ==
    IF Positions(s, c) = {} THEN None
    ELSE LET i == Min(Positions(s, c))
         IN  Some(<<SubSeq(s, 1, i - 1), SubSeq(s, i + 1, Len(s))>>)

\* str::rsplit_once(c): None, or Some(<<before, after>>) around the last c
RSplitOnce(s, c) ==
    IF Positions(s, c) = {} THEN None
    ELSE LET i == Max(Positions(s, c))
         IN  Some(<<SubSeq(s, 1, i - 1), SubSeq(s, i + 1, Len(s))>>)

\* a plausible slip: prefix and suffix are both looked for in the whole
\* string, so a lone quote character counts as a pair
strip_surround_Overlapping(s, c) ==
    IF s # <<>> /\ Head(s) = c /\ s[Len(s)] = c
    THEN Some(SubSeq(s, 2, Len(s) - 1))
    ELSE None

\* strip_prefix(c).and_then(strip_suffix(c)): the suffix is looked for in what
\* is left after the prefix, so a lone quote character is not a pair
strip_surround(s, c) ==
    IF s # <<>> /\ Head(s) = c
    THEN LET t == Tail(s)
         IN  IF t # <<>> /\ t[Len(t)] = c
             THEN Some(SubSeq(t, 1, Len(t) - 1))
             ELSE None
    ELSE None

\* a plausible slip: one pair of each kind is peeled, without recursion
unquote_OnePair(s) ==
    LET s0 == Trim(s)
        d  == strip_surround(s0, "\"")
        s1 == IF d # None THEN d[1] ELSE s0
        q  == strip_surround(s1, "'")
        s2 == IF q # None THEN q[1] ELSE s1
    IN  s2

\* unquote: trim, peel a double-quote pair and recurse, then peel a
\* single-quote pair from that result and recurse
RECURSIVE unquote(_)
unquote(s) ==
    LET s0 == Trim(s)
        d  == strip_surround(s0, "\"")
        s1 == IF d # None THEN unquote(d[1]) ELSE s0
        q  == strip_surround(s1, "'")
        s2 == IF q # None THEN unquote(q[1]) ELSE s1
    IN  s2

(***************************************************************************)
(* Paths (camino::Utf8PathBuf) and the filesystem the runtime grants.      *)
(***************************************************************************)
Sep == "/"

\* Utf8Path::is_absolute: the path has a root
IsAbsolute(p) == p # <<>> /\ Head(p) = Sep

\* a plausible slip: the argument is appended even when it is absolute
Join_AlwaysAppends(base, p) ==
    IF base # <<>> /\ base[Len(base)] # Sep THEN base \o <<Sep>> \o p
    ELSE base \o p

\* Utf8PathBuf::join / PathBuf::push: an absolute argument replaces the base,
\* otherwise a separator is added unless the base already ends with one
Join(base, p) ==
    IF IsAbsolute(p) THEN p
    ELSE IF base # <<>> /\ base[Len(base)] # Sep THEN base \o <<Sep>> \o p
    ELSE base \o p

\* the components of a path string: the text between separators
RECURSIVE Components(_)
Components(p) ==
    LET sp == SplitOnce(p, Sep)
    IN  IF sp = None THEN (IF p = <<>> THEN <<>> ELSE <<p>>)
        ELSE (IF sp[1][1] = <<>> THEN <<>> ELSE <<sp[1][1]>>)
             \o Components(sp[1][2])

Dot == <<".">>
DotDot == <<".", ".">>

\* a byte that is not valid UTF-8 (it makes OsString::into_string fail)
BadByte == "<ff>"

\* A filesystem node is named by its canonical sequence of entry names; the
\* root is the empty sequence.
Root == <<>>
Parent(node) == IF node = Root THEN Root ELSE SubSeq(node, 1, Len(node) - 1)

Dir(mode) == [kind |-> "dir", mode |-> mode, data |-> <<>>]
RegularFile(data) == [kind |-> "file", mode |-> "rw", data |-> data]
Listener == [kind |-> "sock", mode |-> "rw", data |-> <<>>]

\* the tree the shell starts in: /a, /a/n (no access), /e (empty), /f, /g>f,
\* /s (a listener) and a root entry whose name is not valid UTF-8
InitFS ==
    (Root :> Dir("rw"))
    @@ (<< <<"a">> >> :> Dir("rw"))
    @@ (<< <<"a">>, <<"n">> >> :> Dir("none"))
    @@ (<< <<"e">> >> :> Dir("rw"))
    @@ (<< <<"f">> >> :> RegularFile(<<"k">>))
    @@ (<< <<"g", ">", "f">> >> :> RegularFile(<<"k">>))
    @@ (<< <<"s">> >> :> Listener)
    @@ (<< <<BadByte>> >> :> RegularFile(<<>>))

\* Path lookup by the operating system: every component is looked up in a
\* directory the process may search; "." stays, ".." goes to the parent.
\* On wasi ".." at the granted root leaves the sandbox and is refused.
RECURSIVE WalkFrom(_, _, _, _)
WalkFrom(tgt, f, cur, comps) ==
    IF comps = <<>> THEN Some(cur)
    ELSE IF f[cur].kind # "dir" \/ f[cur].mode = "none" THEN None
    ELSE LET c == Head(comps)
         IN  IF c = Dot THEN WalkFrom(tgt, f, cur, Tail(comps))
             ELSE IF c = DotDot
                  THEN (IF cur = Root /\ tgt = "wasi" THEN None
                        ELSE WalkFrom(tgt, f, Parent(cur), Tail(comps)))
             ELSE IF Append(cur, c) \in DOMAIN f
                  THEN WalkFrom(tgt, f, Append(cur, c), Tail(comps))
                  ELSE None

\* the node a path string names, or None; a trailing separator demands a
\* directory
Lookup(tgt, f, p) ==
    IF ~IsAbsolute(p) THEN None
    ELSE LET r == WalkFrom(tgt, f, Root, Components(p))
         IN  IF r # None /\ p[Len(p)] = Sep /\ f[r[1]].kind # "dir"
             THEN None
             ELSE r

\* the canonical path string of a node ("/" for the root)
RECURSIVE PathOf(_)
PathOf(node) ==
    IF node = Root THEN <<Sep>>
    ELSE IF Len(node) = 1 THEN <<Sep>> \o node[1]
    ELSE PathOf(Parent(node)) \o <<Sep>> \o node[Len(node)]

\* the names of the entries of directory `node`
Entries(f, node) ==
    {n[Len(n)] : n \in {m \in DOMAIN f : m # Root /\ Parent(m) = node}}

(***************************************************************************)
(* Command handlers.  A handler yields the set of results the call can     *)
(* have (one, except where the runtime chooses: the order of read_dir).    *)
(* A result carries the effect, the filesystem after the call and `sys`,   *)
(* the path string the handler handed to the operating system.             *)
(***************************************************************************)
\* struct Effect and its Default
Effect(d, o, e) == [dir |-> d, out |-> o, exit |-> e]
DefaultEffect == Effect(None, None, None)

\* (error texts are the code's context strings, written without their
\* backquotes)
Ok(eff, f, sys) ==
    [ok |-> TRUE, block |-> FALSE, eff |-> eff, err |-> "", fs |-> f, sys |-> sys]
Err(msg, f, sys) ==
    [ok |-> FALSE, block |-> FALSE, eff |-> DefaultEffect, err |-> msg, fs |-> f,
     sys |-> sys]
\* the call is inside TcpListener::accept
Blocked(f, sys) ==
    [ok |-> TRUE, block |-> TRUE, eff |-> DefaultEffect, err |-> "", fs |-> f,
     sys |-> sys]

K_accept == <<"a","c","c","e","p","t">>
K_cat == <<"c","a","t">>
K_cd == <<"c","d">>
K_help == <<"h","e","l","p">>
K_echo == <<"e","c","h","o">>
K_exit == <<"e","x","i","t">>
K_ls == <<"l","s">>
K_pwd == <<"p","w","d">>

COMMANDS == <<K_accept, K_cat, K_cd, K_help, K_echo, K_exit, K_ls, K_pwd>>

ACCEPT_USAGE == "Usage: accept FILE"
CAT_USAGE == "Usage: cat FILE"
ECHO_USAGE == "Usage: echo [WORD|\"TEXT\"|'TEXT'] > FILE"
EXIT_USAGE == "Usage: exit"
HELP_USAGE == "Usage: help"
\* a plausible slip: the usage text copied from another command
PWD_USAGE_Copied == "Usage: exit"
PWD_USAGE == "Usage: pwd"

\* a plausible slip: the names are concatenated without the separator
RECURSIVE JoinWith_NoSep(_, _)
JoinWith_NoSep(names, sep) ==
    IF names = <<>> THEN <<>>
    ELSE names[1] \o JoinWith_NoSep(Tail(names), sep)

\* [T]::join(sep) on a sequence of strings
RECURSIVE JoinWith(_, _)
JoinWith(names, sep) ==
    IF names = <<>> THEN <<>>
    ELSE IF Len(names) = 1 THEN names[1]
    ELSE names[1] \o sep \o JoinWith(Tail(names), sep)

\* a plausible slip: the path is adopted without being opened
WorkingDir_open_NoProbe(tgt, f, path) ==
    LET n == Lookup(tgt, f, path)
    IN  IF tgt = "unix" /\ n = None
        THEN Err("failed to canonicalize path", f, Some(path))
        ELSE Ok(Effect(Some(IF tgt = "unix" THEN PathOf(n[1]) ELSE path),
                       None, None), f, Some(path))

\* WorkingDir::open: canonicalize (unix builds only), then File::open
WorkingDir_open(tgt, f, path) ==
    LET n == Lookup(tgt, f, path)
    IN  IF tgt = "unix" /\ n = None
        THEN Err("failed to canonicalize path", f, Some(path))
        ELSE IF n = None \/ f[n[1]].mode = "none"
        THEN Err("failed to open {path}", f, Some(path))
        ELSE Ok(Effect(Some(IF tgt = "unix" THEN PathOf(n[1]) ELSE path),
                       None, None), f, Some(path))

\* accept: open the path read-write, view the handle as a listener, accept
accept(tgt, f, dir, path) ==
    LET p == Join(dir, unquote(path))
        n == Lookup(tgt, f, p)
    IN  IF n = None \/ f[n[1]].mode = "none" \/ f[n[1]].kind = "dir"
        THEN {Err("failed to open {path}", f, Some(p))}
        ELSE IF f[n[1]].kind # "sock"
        THEN {Err("failed to accept connection on {path}", f, Some(p))}
        ELSE {Blocked(f, Some(p))}

\* cat: fs::read
cat(tgt, f, dir, path) ==
    LET p == Join(dir, unquote(path))
        n == Lookup(tgt, f, p)
    IN  IF n # None /\ f[n[1]].kind = "file" /\ f[n[1]].mode = "rw"
        THEN {Ok(Effect(None, Some(f[n[1]].data), None), f, Some(p))}
        ELSE {Err("failed to read {path}", f, Some(p))}

\* a plausible slip: a relative argument is resolved from the root
cd_FromRoot(tgt, f, dir, path) ==
    {WorkingDir_open(tgt, f, Join(<<Sep>>, unquote(path)))}

\* cd
cd(tgt, f, dir, path) ==
    LET p == unquote(path)
    IN  IF IsAbsolute(p) THEN {WorkingDir_open(tgt, f, p)}
        ELSE {WorkingDir_open(tgt, f, Join(dir, p))}

\* a plausible slip: the file is opened for append instead of truncated
FsWrite_Appends(tgt, f, p, data) ==
    LET n     == Lookup(tgt, f, p)
        comps == Components(p)
        par   == IF comps = <<>> THEN None
                 ELSE WalkFrom(tgt, f, Root, SubSeq(comps, 1, Len(comps) - 1))
        last  == comps[Len(comps)]
    IN  IF ~IsAbsolute(p) THEN None
        ELSE IF n # None
        THEN (IF f[n[1]].kind = "file" /\ f[n[1]].mode = "rw"
              THEN Some([f EXCEPT ![n[1]].data = @ \o data])
              ELSE None)
        ELSE IF /\ par # None
                /\ f[par[1]].kind = "dir"
                /\ f[par[1]].mode = "rw"
                /\ last \notin {Dot, DotDot}
                /\ p[Len(p)] # Sep
                /\ Append(par[1], last) \notin DOMAIN f
        THEN Some((Append(par[1], last) :> RegularFile(data)) @@ f)
        ELSE None

\* fs::write: create or truncate the file, then write all of `data`
FsWrite(tgt, f, p, data) ==
    LET n     == Lookup(tgt, f, p)
        comps == Components(p)
        par   == IF comps = <<>> THEN None
                 ELSE WalkFrom(tgt, f, Root, SubSeq(comps, 1, Len(comps) - 1))
        last  == comps[Len(comps)]
    IN  IF ~IsAbsolute(p) THEN None
        ELSE IF n # None
        THEN (IF f[n[1]].kind = "file" /\ f[n[1]].mode = "rw"
              THEN Some([f EXCEPT ![n[1]].data = data])
              ELSE None)
        ELSE IF /\ par # None
                /\ f[par[1]].kind = "dir"
                /\ f[par[1]].mode = "rw"
                /\ last \notin {Dot, DotDot}
                /\ p[Len(p)] # Sep
                /\ Append(par[1], last) \notin DOMAIN f
        THEN Some((Append(par[1], last) :> RegularFile(data)) @@ f)
        ELSE None

\* a plausible variant: a missing `>` is reported with the usage text
echo_UsageWhenNoTarget(tgt, f, dir, args) ==
    LET sp == RSplitOnce(args, ">")
    IN  IF sp = None THEN {Err(ECHO_USAGE, f, None)}
        ELSE LET text == unquote(sp[1][1])
                 p    == Join(dir, unquote(sp[1][2]))
                 w    == FsWrite(tgt, f, p, text)
             IN  IF w = None
                 THEN {Err("failed to write {text} to {path}", f, Some(p))}
                 ELSE {Ok(DefaultEffect, w[1], Some(p))}

\* echo: split at the last `>`, unquote both halves, fs::write
echo(tgt, f, dir, args) ==
    LET sp == RSplitOnce(args, ">")
    IN  IF sp = None THEN {Err("missing >", f, None)}
        ELSE LET text == unquote(sp[1][1])
                 p    == Join(dir, unquote(sp[1][2]))
                 w    == FsWrite(tgt, f, p, text)
             IN  IF w = None
                 THEN {Err("failed to write {text} to {path}", f, Some(p))}
                 ELSE {Ok(DefaultEffect, w[1], Some(p))}

\* a plausible variant: exit also says goodbye
exit_AlsoOutput == Effect(None, Some(<<"b", "y", "e">>), Some(0))

\* exit
exit == Effect(None, None, Some(0))

\* help
help ==
    <<"A","v","a","i","l","a","b","l","e"," ","c","o","m","m","a","n","d","s",
      ":"," ">> \o JoinWith(COMMANDS, <<",", " ">>)

\* the orders in which read_dir may yield the entries
Orders(S) ==
    {o \in [1..Cardinality(S) -> S] : \A i, j \in 1..Cardinality(S) :
                                          i # j => o[i] # o[j]}

\* ls: fs::read_dir, then format_dir
ls(tgt, f, dir, path) ==
    LET p == IF path = None THEN dir ELSE Join(dir, unquote(path[1]))
        n == Lookup(tgt, f, p)
    IN  IF n = None \/ f[n[1]].kind # "dir" \/ f[n[1]].mode = "none"
        THEN {Err(IF path = None
                  THEN "failed to list working directory contents in {dir}"
                  ELSE "failed to list directory {path}", f, Some(p))}
        ELSE IF \E name \in Entries(f, n[1]) : Positions(name, BadByte) # {}
        THEN {Err("failed to parse entry name {}", f, Some(p))}
        ELSE {Ok(Effect(None, Some(JoinWith(o, <<" ">>)), None), f, Some(p)) :
                  o \in Orders(Entries(f, n[1]))}

\* pwd
pwd(dir) == dir

\* handle: the dispatcher
handle(tgt, f, dir, rawline) ==
    LET line == Trim(rawline)
        sp   == SplitOnce(line, " ")
        kw   == IF sp = None THEN line ELSE sp[1][1]
        rest == IF sp = None THEN <<>> ELSE sp[1][2]
    IN  IF line = <<>> THEN {Ok(DefaultEffect, f, None)}
        ELSE IF ~IsAlphanumeric(Head(line))
        THEN {Err("line must start with an alphanumeric character or whitespace",
                  f, None)}
        ELSE IF sp = None /\ line = K_accept THEN {Err(ACCEPT_USAGE, f, None)}
        ELSE IF sp # None /\ kw = K_accept THEN accept(tgt, f, dir, rest)
        ELSE IF sp = None /\ line = K_cat THEN {Err(CAT_USAGE, f, None)}
        ELSE IF sp # None /\ kw = K_cat THEN cat(tgt, f, dir, rest)
        ELSE IF sp = None /\ line = K_cd THEN {Ok(DefaultEffect, f, None)}
        ELSE IF sp # None /\ kw = K_cd THEN cd(tgt, f, dir, rest)
        ELSE IF sp = None /\ line = K_echo THEN {Err(ECHO_USAGE, f, None)}
        ELSE IF sp # None /\ kw = K_echo THEN echo(tgt, f, dir, rest)
        ELSE IF sp = None /\ line = K_exit THEN {Ok(exit, f, None)}
        ELSE IF sp # None /\ kw = K_exit THEN {Err(EXIT_USAGE, f, None)}
        ELSE IF sp = None /\ line = K_help
        THEN {Ok(Effect(None, Some(help), None), f, None)}
        ELSE IF sp # None /\ kw = K_help THEN {Err(HELP_USAGE, f, None)}
        ELSE IF sp = None /\ line = K_ls THEN ls(tgt, f, dir, None)
        ELSE IF sp # None /\ kw = K_ls THEN ls(tgt, f, dir, Some(rest))
        ELSE IF sp = None /\ line = K_pwd
        THEN {Ok(Effect(None, Some(pwd(dir)), None), f, None)}
        ELSE IF sp # None /\ kw = K_pwd THEN {Err(PWD_USAGE, f, None)}
        ELSE {Err("failed to parse line", f, None)}

\* prompt
prompt(dir) == dir \o <<" ", "$", " ">>

(***************************************************************************)
(* Input lines.  A line is typed as a keyword, an optional argument text   *)
(* and optional padding; the shell sees only the rendered characters.      *)
(***************************************************************************)
Typed(kw, rest, text, file, pad) ==
    [kw |-> kw, rest |-> rest, text |-> text, file |-> file, pad |-> pad]
\* a bare word
T(kw) == Typed(kw, None, <<>>, <<>>, <<>>)
\* a word and its argument text
A(kw, arg) == Typed(kw, Some(arg), <<>>, arg, <<>>)
\* echo TEXT > FILE
E(text, file) ==
    Typed(K_echo, Some(text \o <<" ", ">", " ">> \o file), text, file, <<>>)

Render(c) ==
    c.pad \o c.kw \o (IF c.rest = None THEN <<>> ELSE <<" ">> \o c.rest[1])
          \o c.pad

Inputs ==
    { T(<<>>), T(<<"/", "x">>), A(<<"n","o","p">>, <<"a">>),
      T(<<"c","d","\t","a">>), T(<<BadByte>>),
      T(K_accept), A(K_accept, <<"/","s">>), A(K_accept, <<"f">>),
      A(K_accept, <<"z">>),
      T(K_cat), A(K_cat, <<"f">>), A(K_cat, <<"\"","f","\"">>),
      A(K_cat, <<"z">>), A(K_cat, <<"g",">","f">>),
      T(K_cd), Typed(K_cd, None, <<>>, <<>>, <<" ", "\t">>),
      A(K_cd, <<"a">>), A(K_cd, <<"/","a">>), A(K_cd, DotDot),
      A(K_cd, <<"z">>), A(K_cd, <<"n">>), A(K_cd, <<"f">>),
      T(K_echo), A(K_echo, <<"h","i">>), E(<<"h","i">>, <<"f">>),
      E(<<"'","y","o","'">>, <<"f">>), E(<<"h","i">>, <<"g",">","f">>),
      E(<<"h","i">>, <<"z","/","f">>),
      T(K_exit), A(K_exit, <<"x">>),
      T(K_help), A(K_help, <<"x">>),
      T(K_ls), A(K_ls, <<"a">>), A(K_ls, <<"e">>), A(K_ls, <<"z">>),
      T(K_pwd), A(K_pwd, <<"x">>), Typed(K_pwd, None, <<>>, <<>>, <<" ">>) }

\* the lines of sessions that use the listener
NetInputs ==
    { T(<<>>), T(<<BadByte>>),
      T(K_accept), A(K_accept, <<"s">>), A(K_accept, <<"/","s">>),
      A(K_accept, <<"f">>), A(K_accept, <<"z">>),
      A(K_cat, <<"f">>), T(K_cd), A(K_cd, <<"a">>), A(K_cd, <<"z">>),
      E(<<"h","i">>, <<"f">>), T(K_exit), T(K_help), A(K_ls, <<"e">>),
      T(K_pwd) }

\* stdin().lines() fails on a line that is not valid UTF-8
ValidUtf8(l) == Positions(l, BadByte) = {}

(***************************************************************************)
(* Peers of the listener: peer c connects, sends Payload(c) byte by byte   *)
(* and closes.                                                             *)
(***************************************************************************)
Conns == 1..MaxConns
Payload(c) == IF c = 1 THEN <<"x", "y">> ELSE <<ToString(c)>>

(***************************************************************************)
(* State.                                                                  *)
(***************************************************************************)
VARIABLES
    target,   \* the build: "unix" (paths are canonicalized) or "wasi"
    argc,     \* args_os().count()
    pc,       \* "start", "read" (waiting for a line), "accept" (inside
              \* TcpListener::accept), "stream" (inside read_to_end), "exited"
    dir,      \* the WorkingDir threaded through the fold: its path
    fs,       \* the filesystem
    line,     \* the line last read
    res,      \* how the last read ended: "none" (no read yet), "pending",
              \* "ok", "failed", "eof"
    stdout,   \* the bytes this iteration appended to standard output
    stderr,   \* what this iteration appended to the diagnostic stream
    code,     \* the exit code once pc = "exited", -1 before
    backlog,  \* connections waiting on the listener, oldest first
    peer,     \* per connection: its state and the number of bytes it has sent
    stream,   \* the connection the running accept command accepted, or 0
    buf,      \* the bytes read_to_end has collected
    naccept,  \* accepts the running accept command has performed
    typed,    \* history: the last line as it was typed
    dir0,     \* history: the working directory when the last line was read
    fs0,      \* history: the filesystem when the last line was read
    sysPath,  \* history: the path the last handler handed to the system
    lastEcho, \* history: the last successful echo: its directory and line
    uqIn,     \* the string given to unquote
    uqOut,    \* what unquote returned last (uqIn before any call)
    uqStep,   \* how many times unquote has been applied to uqIn
    handles,  \* the file, listener and stream handles open now
    opened,   \* history: the handles the last line opened
    lastEff   \* history: the Effect handle returned for the last line, if any

vars ==
    <<target, argc, pc, dir, fs, line, res, stdout, stderr, code, backlog, peer,
      stream, buf, naccept, typed, dir0, fs0, sysPath, lastEcho, uqIn, uqOut,
      uqStep, handles, opened, lastEff>>

netVars == <<backlog, peer, stream, buf, naccept>>

uqVars == <<uqIn, uqOut, uqStep>>

hVars == <<handles, opened>>

shellVars ==
    <<target, argc, pc, dir, fs, line, res, stdout, stderr, code, backlog, peer,
      stream, buf, naccept, typed, dir0, fs0, sysPath, lastEcho, hVars,
      lastEff>>

Prompt(d) == [t |-> "prompt", msg |-> "", text |-> prompt(d)]
Error(m) == [t |-> "error", msg |-> m, text |-> <<>>]

Init ==
    /\ target \in {"unix", "wasi"}
    /\ argc \in {1, 2}
    /\ pc = "start"
    /\ dir = <<>>
    /\ fs = InitFS
    /\ line = <<>>
    /\ res = "none"
    /\ stdout = <<>>
    /\ stderr = <<>>
    /\ code = -1
    /\ backlog = <<>>
    /\ peer = [c \in Conns |-> [st |-> "idle", sent |-> 0]]
    /\ stream = 0
    /\ buf = <<>>
    /\ naccept = 0
    /\ typed = T(<<>>)
    /\ dir0 = <<>>
    /\ fs0 = InitFS
    /\ sysPath = None
    /\ lastEcho = None
    /\ handles = {}
    /\ opened = {}
    /\ lastEff = None
    /\ uqIn = <<>>
    /\ uqOut = <<>>
    /\ uqStep = 0

\* A handle is named by the command that opened it and the path it was
\* opened on.
Handle(kind, p) == [kind |-> kind, path |-> p]

\* The handles the handler of line c opens, r being its result: one on the
\* path handed to the system (File::open, File::options().open, fs::read,
\* fs::write, fs::read_dir), if the path could be opened.
Opens(tgt, f, c, r) ==
    IF r.sys = None THEN {}
    ELSE LET n == Lookup(tgt, f, r.sys[1])
         IN  IF r.ok \/ (n # None /\ f[n[1]].mode # "none")
             THEN {Handle(c.kw, r.sys[1])}
             ELSE {}

\* a plausible variant: WorkingDir keeps the handle WorkingDir::open obtained
Releases_HoldsProbe(r, hs) ==
    IF r.block \/ (r.ok /\ r.eff.dir # None) THEN {} ELSE hs

\* Of the handles hs a handler opened, those dropped when it returns: all of
\* them (`_ = File::open(..)` drops at once, fs::read, fs::write and the
\* ReadDir are temporaries, `?` drops on the error path); a handler that is
\* still inside TcpListener::accept has returned nothing yet.
Releases(r, hs) == IF r.block THEN {} ELSE hs

\* the listener the running accept opened and the stream it accepted
ListenerHandle == Handle(K_accept, sysPath[1])
StreamHandle == Handle(<<"s", "t", "r", "e", "a", "m">>, sysPath[1])

\* a plausible slip: the prompt before the first read is forgotten
Start_NoFirstPrompt ==
    /\ pc = "start"
    /\ IF argc # 1
       THEN /\ pc' = "exited"
            /\ code' = 1
            /\ stderr' = <<Error("wash takes exactly one argument: the executable path")>>
            /\ dir' = dir
       ELSE /\ pc' = "read"
            /\ code' = code
            /\ dir' = <<Sep>>
            /\ stderr' = <<>>
    /\ UNCHANGED <<uqVars, lastEff, hVars, target, argc, fs, line, res, stdout,
                   netVars, typed, dir0, fs0, sysPath, lastEcho>>

\* main, before the loop: the argument check, WorkingDir::open("/") and the
\* first prompt (the root of InitFS can always be opened)
Start ==
    /\ pc = "start"
    /\ IF argc # 1
       THEN /\ pc' = "exited"
            /\ code' = 1
            /\ stderr' = <<Error("wash takes exactly one argument: the executable path")>>
            /\ dir' = dir
       ELSE /\ pc' = "read"
            /\ code' = code
            /\ dir' = <<Sep>>
            /\ stderr' = <<Prompt(<<Sep>>)>>
    /\ UNCHANGED <<uqVars, lastEff, hVars, target, argc, fs, line, res, stdout,
                   netVars, typed, dir0, fs0, sysPath, lastEcho>>

\* a plausible slip: the newline after the output is forgotten
Written_NoNewline(out) ==
    {[ok |-> TRUE, err |-> "", bytes |-> out]}

\* What copy(out) and write("\n") can do to standard output: both succeed,
\* copy fails (with nothing written; a copy of no bytes writes nothing and
\* cannot fail), or the newline fails after the whole output.
Written(out) ==
    {[ok |-> TRUE, err |-> "", bytes |-> out \o <<"\n">>],
     [ok |-> FALSE, err |-> "failed to write newline to STDOUT", bytes |-> out]}
    \cup (IF out = <<>> THEN {}
          ELSE {[ok |-> FALSE, err |-> "failed to write output to STDOUT",
                 bytes |-> <<>>]})

\* a plausible slip: an error resets the working directory to the root
OnError_ResetsDir(msg, bytes) ==
    [res |-> "failed", stdout |-> bytes, dir |-> <<Sep>>, pc |-> "read",
     code |-> code, stderr |-> <<Error(msg), Prompt(<<Sep>>)>>]

\* a plausible slip: an error is propagated out of the fold and ends main
OnError_EndsSession(msg, bytes) ==
    [res |-> "failed", stdout |-> bytes, dir |-> dir, pc |-> "exited",
     code |-> 1, stderr |-> <<Error(msg)>>]

\* main, the Err(e) arm of the match: print the error, keep the directory,
\* print the prompt
OnError(msg, bytes) ==
    [res |-> "failed", stdout |-> bytes, dir |-> dir, pc |-> "read",
     code |-> code, stderr |-> <<Error(msg), Prompt(dir)>>]

\* a plausible slip: the exit code of the effect is never looked at
OnOk_IgnoresExit(eff, bytes) ==
    LET d == IF eff.dir # None THEN eff.dir[1] ELSE dir
    IN  [res |-> "ok", stdout |-> bytes, dir |-> d, pc |-> "read",
         code |-> code, stderr |-> <<Prompt(d)>>]

\* main, after the output is written: process::exit on an exit code, else
\* the Ok arms of the match (keep or replace the directory) and the prompt
OnOk(eff, bytes) ==
    LET d == IF eff.dir # None THEN eff.dir[1] ELSE dir
    IN  IF eff.exit # None
        THEN [res |-> "ok", stdout |-> bytes, dir |-> dir, pc |-> "exited",
              code |-> eff.exit[1], stderr |-> <<>>]
        ELSE [res |-> "ok", stdout |-> bytes, dir |-> d, pc |-> "read",
              code |-> code, stderr |-> <<Prompt(d)>>]

\* The loop's treatment of a handler result r (main, the and_then closure and
\* the match); w is what the write of the output does.
Apply(r, w) ==
    IF ~r.ok THEN OnError(r.err, <<>>)
    ELSE IF r.eff.out # None /\ ~w.ok THEN OnError(w.err, w.bytes)
    ELSE OnOk(r.eff, IF r.eff.out # None THEN w.bytes ELSE <<>>)

Finish(r, w) ==
    LET a == Apply(r, w)
    IN  /\ res' = a.res
        /\ stdout' = a.stdout
        /\ stderr' = a.stderr
        /\ dir' = a.dir
        /\ pc' = a.pc
        /\ code' = a.code

WriteChoices(r) ==
    IF r.ok /\ r.eff.out # None THEN Written(r.eff.out[1])
    ELSE {[ok |-> TRUE, err |-> "", bytes |-> <<>>]}

\* One iteration of the fold over stdin().lines(): read the line typed as c,
\* handle it and apply the effect; an accept on a listener blocks instead.
Line(c) ==
    /\ pc = "read"
    /\ typed' = c
    /\ line' = Render(c)
    /\ dir0' = dir
    /\ fs0' = fs
    /\ UNCHANGED <<uqVars, target, argc, backlog, peer>>
    /\ stream' = 0
    /\ buf' = <<>>
    /\ naccept' = 0
    /\ IF ~ValidUtf8(Render(c))
       THEN /\ pc' = "exited"
            /\ code' = 1
            /\ res' = "failed"
            /\ stdout' = <<>>
            /\ stderr' = <<Error("failed to read line from STDIN")>>
            /\ UNCHANGED <<dir, fs, lastEcho, handles>>
            /\ opened' = {}
            /\ lastEff' = None
            /\ sysPath' = None
       ELSE \E r \in handle(target, fs, dir, Render(c)) :
              /\ r.ok /\ r.eff.dir # None => Len(r.eff.dir[1]) <= MaxPathLen
              /\ sysPath' = r.sys
              /\ fs' = r.fs
              /\ lastEff' = IF r.ok /\ ~r.block THEN Some(r.eff) ELSE None
              /\ opened' = Opens(target, fs, c, r)
              /\ handles' = (handles \cup Opens(target, fs, c, r))
                                \ Releases(r, Opens(target, fs, c, r))
              /\ lastEcho' = IF r.ok /\ c.kw = K_echo /\ c.rest # None
                             THEN Some(<<dir, c>>)
                             ELSE lastEcho
              /\ IF r.block
                 THEN /\ pc' = "accept"
                      /\ res' = "pending"
                      /\ stdout' = <<>>
                      /\ stderr' = <<>>
                      /\ UNCHANGED <<dir, code>>
                 ELSE \E w \in WriteChoices(r) : Finish(r, w)

\* stdin ends: the fold returns and main returns Ok
Eof ==
    /\ pc = "read"
    /\ pc' = "exited"
    /\ code' = 0
    /\ res' = "eof"
    /\ stdout' = <<>>
    /\ stderr' = <<>>
    /\ UNCHANGED <<uqVars, lastEff, hVars, target, argc, dir, fs, line,
                   netVars, typed, dir0, fs0, sysPath, lastEcho>>

\* a plausible slip: the listener is non-blocking, so accept fails at once
\* when no connection is waiting
AcceptConn_NonBlocking ==
    /\ pc = "accept"
    /\ IF backlog # <<>>
       THEN /\ stream' = Head(backlog)
            /\ backlog' = Tail(backlog)
            /\ naccept' = naccept + 1
            /\ pc' = "stream"
            /\ handles' = {StreamHandle}
            /\ opened' = opened \cup {StreamHandle}
            /\ UNCHANGED <<dir, res, stdout, stderr, code, lastEff>>
       ELSE /\ Finish(Err("failed to accept connection on {path}", fs, sysPath),
                      [ok |-> TRUE, err |-> "", bytes |-> <<>>])
            /\ handles' = {}
            /\ opened' = opened
            /\ lastEff' = None
            /\ UNCHANGED <<stream, backlog, naccept>>
    /\ UNCHANGED <<uqVars, target, argc, fs, line, peer, buf, typed, dir0, fs0,
                   sysPath, lastEcho>>

\* TcpListener::accept returns the oldest waiting connection
AcceptConn ==
    /\ pc = "accept"
    /\ backlog # <<>>
    /\ stream' = Head(backlog)
    /\ backlog' = Tail(backlog)
    /\ naccept' = naccept + 1
    /\ pc' = "stream"
    /\ handles' = (handles \cup {StreamHandle}) \ {ListenerHandle}
    /\ opened' = opened \cup {StreamHandle}
    /\ UNCHANGED <<uqVars, lastEff, target, argc, dir, fs, line, res, stdout,
                   stderr, code, peer, buf, typed, dir0, fs0, sysPath,
                   lastEcho>>

\* bytes the accepted peer has sent and read_to_end has not yet collected
Unread == SubSeq(Payload(stream), Len(buf) + 1, peer[stream].sent)

\* read_to_end: one read that returns the bytes available
StreamRead ==
    /\ pc = "stream"
    /\ Unread # <<>>
    /\ buf' = buf \o Unread
    /\ UNCHANGED <<uqVars, lastEff, hVars, target, argc, pc, dir, fs, line,
                   res, stdout, stderr, code, backlog, peer, stream, naccept,
                   typed, dir0, fs0, sysPath, lastEcho>>

\* a plausible slip: one read instead of read_to_end, so accept returns what
\* has arrived without waiting for the peer to close
StreamEnd_OneRead ==
    /\ pc = "stream"
    /\ Unread = <<>>
    /\ \E w \in Written(buf) :
          Finish(Ok(Effect(None, Some(buf), None), fs, sysPath), w)
    /\ handles' = handles \ {StreamHandle}
    /\ opened' = opened
    /\ lastEff' = Some(Effect(None, Some(buf), None))
    /\ UNCHANGED <<uqVars, target, argc, fs, line, netVars, typed, dir0, fs0,
                   sysPath, lastEcho>>

\* read_to_end sees end of stream: accept returns the buffer and the loop
\* applies the effect
StreamEnd ==
    /\ pc = "stream"
    /\ peer[stream].st = "closed"
    /\ Unread = <<>>
    /\ \E w \in Written(buf) :
          Finish(Ok(Effect(None, Some(buf), None), fs, sysPath), w)
    /\ handles' = handles \ {StreamHandle}
    /\ opened' = opened
    /\ lastEff' = Some(Effect(None, Some(buf), None))
    /\ UNCHANGED <<uqVars, target, argc, fs, line, netVars, typed, dir0, fs0,
                   sysPath, lastEcho>>

PeerConnect(c) ==
    /\ peer[c].st = "idle"
    /\ peer' = [peer EXCEPT ![c].st = "open"]
    /\ backlog' = Append(backlog, c)
    /\ UNCHANGED <<uqVars, lastEff, hVars, target, argc, pc, dir, fs, line,
                   res, stdout, stderr, code, stream, buf, naccept, typed,
                   dir0, fs0, sysPath, lastEcho>>

PeerSend(c) ==
    /\ peer[c].st = "open"
    /\ peer[c].sent < Len(Payload(c))
    /\ peer' = [peer EXCEPT ![c].sent = @ + 1]
    /\ UNCHANGED <<uqVars, lastEff, hVars, target, argc, pc, dir, fs, line,
                   res, stdout, stderr, code, backlog, stream, buf, naccept,
                   typed, dir0, fs0, sysPath, lastEcho>>

PeerClose(c) ==
    /\ peer[c].st = "open"
    /\ peer' = [peer EXCEPT ![c].st = "closed"]
    /\ UNCHANGED <<uqVars, lastEff, hVars, target, argc, pc, dir, fs, line,
                   res, stdout, stderr, code, backlog, stream, buf, naccept,
                   typed, dir0, fs0, sysPath, lastEcho>>

\* The shell alone: no peer ever connects to the listener.
Next ==
    \/ Start
    \/ \E c \in Inputs : Line(c)
    \/ Eof

Spec == Init /\ [][Next]_vars

\* The shell and the peers of the listener.
NextNet ==
    \/ Start
    \/ \E c \in NetInputs : Line(c)
    \/ Eof
    \/ AcceptConn
    \/ StreamRead
    \/ StreamEnd
    \/ \E c \in Conns : PeerConnect(c)
    \/ \E c \in Conns : PeerSend(c)
    \/ \E c \in Conns : PeerClose(c)

SpecNet == Init /\ [][NextNet]_vars

(***************************************************************************)
(* unquote on its own: every string over QuoteChars up to MaxQuoteLen      *)
(* characters is unquoted, and the result unquoted again.                  *)
(***************************************************************************)
QuoteChars == {" ", "\"", "'", "a"}

QuoteStrings == UNION {[1..n -> QuoteChars] : n \in 0..MaxQuoteLen}

InitUnquote ==
    /\ target = "unix"
    /\ argc = 1
    /\ pc = "start"
    /\ dir = <<>>
    /\ fs = InitFS
    /\ line = <<>>
    /\ res = "none"
    /\ stdout = <<>>
    /\ stderr = <<>>
    /\ code = -1
    /\ backlog = <<>>
    /\ peer = [c \in Conns |-> [st |-> "idle", sent |-> 0]]
    /\ stream = 0
    /\ buf = <<>>
    /\ naccept = 0
    /\ typed = T(<<>>)
    /\ dir0 = <<>>
    /\ fs0 = InitFS
    /\ sysPath = None
    /\ lastEcho = None
    /\ handles = {}
    /\ opened = {}
    /\ lastEff = None
    /\ uqIn \in QuoteStrings
    /\ uqOut = uqIn
    /\ uqStep = 0

\* a call of unquote on what the previous call returned
Unquote ==
    /\ uqStep < 2
    /\ uqOut' = unquote(uqOut)
    /\ uqStep' = uqStep + 1
    /\ UNCHANGED <<uqIn, shellVars>>

NextUnquote == Unquote

SpecUnquote == InitUnquote /\ [][NextUnquote]_vars

(***************************************************************************)
(* Properties.  The history variables typed, dir0 and fs0 describe the     *)
(* line the loop handled last; res tells how it ended.                     *)
(***************************************************************************)
\* the last line has been handled to its end
Handled == res \in {"ok", "failed"}
\* the last line was typed as the word kw alone
Bare(kw) == typed.kw = kw /\ typed.rest = None
\* the last line was typed as the word kw with argument text
WithArg(kw) == typed.kw = kw /\ typed.rest # None
\* the first thing the iteration wrote to the diagnostic stream is an error
SaysError == stderr # <<>> /\ stderr[1].t = "error"
ErrorText == stderr[1].msg
P_a == <<"/", "a">>

\* C1: a line whose handling fails gets an `Error: ...` diagnostic (followed by
\* the prompt for the next line) and leaves the working directory as it was
\* when the line was read, whatever lines came before.
C1_FailedLineKeepsDir ==
    res = "failed" =>
        /\ SaysError
        /\ dir = dir0
        /\ pc = "read" => stderr = <<Error(ErrorText), Prompt(dir0)>>

\* a failing `cd z` typed in /a, after a successful cd
C1_Witness ==
    /\ res = "failed" /\ pc = "read"
    /\ typed = A(K_cd, <<"z">>)
    /\ dir0 = P_a
    /\ SaysError

\* C2 as stated: once the loop runs, the process ends only by `exit` or by the
\* end of input, with exit code 0, and never by an error.
C2_OnlyExitOrEofEnd ==
    (pc = "exited" /\ dir # <<>>) => (code = 0 /\ res # "failed")

\* C2, amended: a failure in handling a line or in writing its output leaves
\* the loop waiting for the next line; the process ends with code 0 on `exit`
\* and on the end of input, and with a non-zero code only when reading a line
\* from standard input fails.
C2_ErrorsDoNotEndSession ==
    /\ (res = "failed" /\ ValidUtf8(line)) => (pc = "read" /\ code = -1)
    /\ (pc = "exited" /\ dir # <<>>) =>
          \/ code = 0 /\ res # "failed"
          \/ code # 0 /\ res = "failed" /\ ~ValidUtf8(line)

\* a failed line in /a, the loop waiting for the next one
C2_Witness ==
    /\ res = "failed" /\ pc = "read" /\ code = -1
    /\ typed = A(K_pwd, <<"x">>)
    /\ dir = P_a

\* the node a working-directory string names
NodeOf(f, d) == Lookup(target, f, d)

\* C3: pwd prints the working directory; the working directory is absolute,
\* is `/` until a cd with an argument succeeds, changes only by such a cd,
\* and a successful `cd ARG` leaves it naming the node reached from the old
\* directory along the unquoted ARG (from the root if ARG is absolute).
C3_PwdReportsLastCd ==
    /\ (Bare(K_pwd) /\ res = "ok") => (stdout = dir \o <<"\n">> /\ dir = dir0)
    /\ pc \in {"read", "accept", "stream"} => IsAbsolute(dir)
    /\ (pc = "read" /\ res = "none") => dir = <<Sep>>
    /\ (Handled /\ dir # dir0) => (WithArg(K_cd) /\ res = "ok")
    /\ (WithArg(K_cd) /\ res = "ok") =>
          LET u == unquote(typed.rest[1])
          IN  /\ NodeOf(fs0, dir0) # None
              /\ NodeOf(fs, dir) =
                    IF IsAbsolute(u)
                    THEN WalkFrom(target, fs0, Root, Components(u))
                    ELSE WalkFrom(target, fs0, NodeOf(fs0, dir0)[1],
                                  Components(u))
              /\ NodeOf(fs, dir) # None

\* pwd typed in /a after `cd a` prints /a
C3_Witness ==
    /\ Bare(K_pwd) /\ res = "ok"
    /\ dir = P_a
    /\ stdout = P_a \o <<"\n">>

\* C4: when `exit` has been handled the process has ended with code 0, having
\* written nothing and changed neither directory nor filesystem, and once the
\* process has ended nothing changes any more: no later line is read.
C4_ExitEndsAtOnce ==
    /\ [](Bare(K_exit) =>
            /\ pc = "exited" /\ code = 0 /\ res = "ok"
            /\ stdout = <<>> /\ stderr = <<>>
            /\ dir = dir0 /\ fs = fs0)
    /\ [][pc = "exited" => UNCHANGED vars]_vars

\* `exit` typed in /a
C4_Witness ==
    /\ Bare(K_exit) /\ pc = "exited" /\ code = 0
    /\ dir = P_a

NoGt(p) == Positions(p, ">") = {}

\* what the claim expects of echo and cat, for every file argument (any) or
\* for those without `>`
EchoThenCat(any) ==
    /\ (WithArg(K_echo) /\ res = "ok" /\ (any \/ NoGt(typed.file))) =>
          LET n == Lookup(target, fs, Join(dir0, unquote(typed.file)))
          IN  n # None /\ fs[n[1]].data = unquote(typed.text)
    /\ (/\ WithArg(K_cat) /\ res = "ok"
        /\ lastEcho # None
        /\ lastEcho[1][1] = dir0
        /\ unquote(lastEcho[1][2].file) = unquote(typed.file)
        /\ (any \/ NoGt(typed.file))) =>
          stdout = unquote(lastEcho[1][2].text) \o <<"\n">>

\* C5 as stated: for every text and file path, after a successful
\* `echo text > file` the file holds exactly the unquoted text, and a cat of
\* the same file from the same directory, with no echo in between, prints
\* exactly that text (the loop adds the newline), whatever the file held.
C5_EchoThenCatAnyPath == EchoThenCat(TRUE)

\* C5, amended: the same for every text and every file path that contains
\* no `>`.
C5_EchoThenCat == EchoThenCat(FALSE)

\* `cat "f"` prints yo after `echo 'yo' > f` replaced what f held
C5_Witness ==
    /\ typed = A(K_cat, <<"\"", "f", "\"">>) /\ res = "ok"
    /\ lastEcho # None
    /\ lastEcho[1][1] = dir0
    /\ lastEcho[1][2] = E(<<"'", "y", "o", "'">>, <<"f">>)
    /\ stdout = <<"y", "o", "\n">>

OutputWords == {K_accept, K_cat, K_help, K_ls, K_pwd}

\* what reaches the two streams when the last line did not fail
StreamsOfHandledLine ==
    /\ (res = "ok" /\ typed.kw \notin OutputWords) => stdout = <<>>
    /\ (res = "ok" /\ typed.kw \in OutputWords) =>
          /\ stdout # <<>>
          /\ Positions(stdout, "\n") = {Len(stdout)}
    /\ (res = "ok" /\ Bare(K_pwd)) => stdout = dir0 \o <<"\n">>
    /\ (res = "ok" /\ WithArg(K_cat)) =>
          LET n == Lookup(target, fs0, Join(dir0, unquote(typed.rest[1])))
          IN  n # None /\ stdout = fs0[n[1]].data \o <<"\n">>
    /\ (res = "ok" /\ Bare(K_help)) =>
          SubSeq(stdout, 1, 19) =
             <<"A","v","a","i","l","a","b","l","e"," ","c","o","m","m","a","n",
               "d","s",":">>
    /\ Handled =>
          stderr = (IF res = "failed" THEN <<Error(ErrorText)>> ELSE <<>>)
                   \o (IF pc = "read" THEN <<Prompt(dir)>> ELSE <<>>)

FailsWith(m) ==
    /\ res = "failed" /\ pc = "read"
    /\ SaysError /\ ErrorText = m
    /\ stdout = <<>> /\ dir = dir0 /\ fs = fs0 /\ code = -1

\* C7: of the lines that start with an alphanumeric character, one whose first
\* word is no command fails with `failed to parse line`; pwd, exit, help with
\* argument text and accept, cat, echo without fail with their usage text;
\* none of them exits, prints, changes directory or writes a file.
C7_DispatchErrors ==
    (Handled /\ typed.kw # <<>> /\ IsAlphanumeric(Head(typed.kw))) =>
        /\ typed.kw \notin {K_accept, K_cat, K_cd, K_help, K_echo, K_exit, K_ls,
                            K_pwd} => FailsWith("failed to parse line")
        /\ WithArg(K_pwd) => FailsWith("Usage: pwd")
        /\ WithArg(K_exit) => FailsWith("Usage: exit")
        /\ WithArg(K_help) => FailsWith("Usage: help")
        /\ Bare(K_accept) => FailsWith("Usage: accept FILE")
        /\ Bare(K_cat) => FailsWith("Usage: cat FILE")
        /\ Bare(K_echo) => FailsWith("Usage: echo [WORD|\"TEXT\"|'TEXT'] > FILE")

\* `pwd x` typed in /a
C7_Witness ==
    /\ typed = A(K_pwd, <<"x">>)
    /\ dir0 = P_a
    /\ FailsWith("Usage: pwd")

\* the last line is an echo whose argument text has no `>`
EchoWithoutTarget == WithArg(K_echo) /\ NoGt(typed.rest[1]) /\ Handled

\* C8 as stated: an echo whose argument text has no `>` fails with the echo
\* usage text and writes no file.
C8_EchoNoTargetIsUsage ==
    EchoWithoutTarget =>
        FailsWith("Usage: echo [WORD|\"TEXT\"|'TEXT'] > FILE")

\* C8, amended: such an echo fails with the error `missing >` and writes no
\* file.
C8_EchoNoTargetIsMissing ==
    EchoWithoutTarget => FailsWith("missing >")

\* `echo hi` typed in /a
C8_Witness ==
    /\ typed = A(K_echo, <<"h", "i">>)
    /\ dir0 = P_a
    /\ FailsWith("missing >")

PathWords == {K_accept, K_cat, K_cd, K_echo, K_ls}

\* the last line ran a handler on a path argument
PathCmd ==
    /\ res \in {"ok", "failed", "pending"}
    /\ typed.kw \in PathWords /\ typed.rest # None
    /\ typed.kw = K_echo => ~NoGt(typed.rest[1])

\* its path argument, unquoted (for echo, what follows the last `>`)
PathArg ==
    unquote(IF typed.kw = K_echo THEN RSplitOnce(typed.rest[1], ">")[1][2]
            ELSE typed.rest[1])

\* the claim's resolution: absolute as it is, relative onto the directory
Resolved ==
    IF PathArg # <<>> /\ Head(PathArg) = "/" THEN PathArg
    ELSE IF dir0[Len(dir0)] = "/" THEN dir0 \o PathArg
    ELSE dir0 \o <<"/">> \o PathArg

\* the resolved path names a node the process may open
Openable ==
    LET n == Lookup(target, fs0, Resolved)
    IN  n # None /\ fs0[n[1]].mode # "none"

\* C9 as stated: accept, cat, cd, echo and ls hand the system the path
\* resolved in the same way, and when it does not exist or cannot be opened
\* the command fails and the filesystem is as before.
C9_ResolveMustExist ==
    PathCmd =>
        /\ sysPath = Some(Resolved)
        /\ ~Openable => (res = "failed" /\ fs = fs0)

\* C9, amended: the resolution is the same for all five; accept, cat, cd and
\* ls fail without effect when the path does not exist or cannot be opened;
\* echo creates the file when only its directory exists, fails without
\* effect when that is missing, and changes no other file.
C9_Resolve ==
    PathCmd =>
        /\ sysPath = Some(Resolved)
        /\ (typed.kw # K_echo /\ ~Openable) => (res = "failed" /\ fs = fs0)
        /\ typed.kw # K_echo => fs = fs0
        /\ typed.kw = K_echo =>
              LET c == Components(Resolved)
                  d == IF c = <<>> THEN None
                       ELSE WalkFrom(target, fs0, Root,
                                     SubSeq(c, 1, Len(c) - 1))
                  n == Lookup(target, fs, Resolved)
              IN  /\ d = None => res = "failed"
                  /\ res = "failed" => fs = fs0
                  /\ res = "ok" =>
                        /\ n # None
                        /\ DOMAIN fs = DOMAIN fs0 \cup {n[1]}
                        /\ \A m \in DOMAIN fs0 : m # n[1] => fs[m] = fs0[m]

\* `ls z` typed in /a: /a/z does not exist
C9_Witness ==
    /\ PathCmd
    /\ typed = A(K_ls, <<"z">>)
    /\ dir0 = P_a
    /\ sysPath = Some(<<"/", "a", "/", "z">>)
    /\ res = "failed"

\* C10: a successful accept has accepted one connection and printed exactly
\* the bytes that connection's peer sent before it closed, in order.
C10_AcceptOutput ==
    (WithArg(K_accept) /\ res = "ok") =>
        /\ naccept = 1
        /\ stream \in Conns
        /\ peer[stream].st = "closed"
        /\ buf = SubSeq(Payload(stream), 1, peer[stream].sent)
        /\ stdout = buf \o <<"\n">>

\* peer 1 was accepted and sent x y while peer 2 waits with a byte sent
C10_Witness ==
    /\ WithArg(K_accept) /\ res = "ok"
    /\ stream = 1
    /\ stdout = <<"x", "y", "\n">>
    /\ backlog = <<2>>
    /\ peer[2].sent = 1

\* what the loop owns: the line, its history, the directory, the filesystem,
\* both streams and the exit code
loopVars == <<typed, line, dir, dir0, fs, fs0, stdout, stderr, code, res>>

\* C11: a line is read only when the loop waits for one; while an accept waits
\* for a peer to connect or to close, nothing is read, handled or printed (no
\* prompt), and the wait ends only by a connection arriving and then by that
\* peer closing: without them the shell stays in the accept for ever.
C11_OneLineAtATime ==
    /\ [](pc \in {"accept", "stream"} =>
            /\ res = "pending" /\ WithArg(K_accept)
            /\ stdout = <<>> /\ stderr = <<>> /\ dir = dir0 /\ fs = fs0)
    /\ [][/\ (typed' # typed \/ line' # line \/ dir0' # dir0) => pc = "read"
          /\ pc = "accept" => pc' \in {"accept", "stream"}
          /\ (pc = "accept" /\ backlog = <<>>) => pc' = "accept"
          /\ pc = "stream" => pc' \in {"stream", "read"}
          /\ (pc = "stream" /\ peer[stream].st # "closed") => pc' = "stream"
          /\ (pc \in {"accept", "stream"} /\ pc' # "read") =>
                UNCHANGED loopVars
          /\ (pc = "stream" /\ pc' = "read") =>
                /\ UNCHANGED <<typed, line, dir, dir0, fs, fs0, code>>
                /\ res' \in {"ok", "failed"}
                /\ stderr'[Len(stderr')] = Prompt(dir)]_vars

\* the accepted peer has sent everything and not closed: the accept still
\* waits, nothing printed, while another peer is queued on the listener
C11_Witness ==
    /\ pc = "stream" /\ res = "pending"
    /\ stream = 1 /\ peer[1].st = "open" /\ buf = <<"x", "y">>
    /\ backlog = <<2>>
    /\ stderr = <<>> /\ stdout = <<>>
    /\ dir = P_a

\* C12: a line that is `cd` alone, with or without whitespace around it,
\* succeeds in every working directory and filesystem state, writes nothing
\* to standard output, prints only the prompt, and leaves the working
\* directory and the filesystem as they were.
C12_BareCdIsNoOp ==
    (Bare(K_cd) /\ res # "eof") =>
        /\ res = "ok" /\ pc = "read" /\ code = -1
        /\ dir = dir0 /\ fs = fs0
        /\ stdout = <<>>
        /\ stderr = <<Prompt(dir0)>>

\* `cd` padded with whitespace, typed in /a after an echo changed a file
C12_Witness ==
    /\ Bare(K_cd) /\ typed.pad = <<" ", "\t">> /\ res = "ok"
    /\ dir0 = P_a /\ dir = P_a
    /\ fs # InitFS

\* the prompts among what the iteration wrote to the diagnostic stream
PromptsPrinted == {i \in 1..Len(stderr) : stderr[i].t = "prompt"}

\* C13: whenever the loop is about to read standard input, the last thing
\* written to the diagnostic stream is one prompt, and it shows the working
\* directory the next line will run in: `/` before the first line, the new
\* directory after a successful cd, the unchanged one after any other line;
\* the read that finds the end of input is preceded by such a prompt too, and
\* no line is read from any other position.
C13_PromptBeforeRead ==
    /\ [](pc = "read" =>
            /\ PromptsPrinted = {Len(stderr)}
            /\ stderr[Len(stderr)] = Prompt(dir)
            /\ stderr[Len(stderr)].text = dir \o <<" ", "$", " ">>
            /\ res = "none" => dir = <<Sep>>
            /\ res = "failed" => dir = dir0
            /\ (res = "ok" /\ ~WithArg(K_cd)) => dir = dir0
            /\ (res = "ok" /\ WithArg(K_cd)) =>
                  NodeOf(fs, dir) =
                     Lookup(target, fs0, Join(dir0, unquote(typed.rest[1]))))
    /\ [][/\ (line' # line \/ typed' # typed \/ res' = "eof") => pc = "read"
          /\ (res' = "eof" /\ res # "eof") =>
                (stderr # <<>> /\ stderr[Len(stderr)] = Prompt(dir'))]_vars

\* after `cd a` typed in / the prompt shows /a
C13_Witness ==
    /\ pc = "read" /\ res = "ok"
    /\ typed = A(K_cd, <<"a">>)
    /\ dir0 = <<Sep>>
    /\ stderr = <<Prompt(P_a)>>

\* the fields of s between single spaces
RECURSIVE Fields(_)
Fields(s) ==
    LET sp == SplitOnce(s, " ")
    IN  IF sp = None THEN <<s>> ELSE <<sp[1][1]>> \o Fields(sp[1][2])

Words(s) == IF s = <<>> THEN <<>> ELSE Fields(s)

\* the node the last `ls` was asked to list
LsNode ==
    Lookup(target, fs0,
           IF typed.rest = None THEN dir0 ELSE Join(dir0, unquote(typed.rest[1])))

\* C14: a successful ls prints, before the newline, the names of the entries
\* of the directory it lists (the working directory, or the resolved
\* argument) separated by single spaces, every entry once and nothing else;
\* when an entry name of that directory is not valid text the command fails
\* and prints nothing; ls never changes the filesystem.
C14_LsListsEntries ==
    (typed.kw = K_ls /\ Handled) =>
        /\ fs = fs0
        /\ res = "ok" =>
              /\ LsNode # None
              /\ fs0[LsNode[1]].kind = "dir"
              /\ stdout # <<>> /\ stdout[Len(stdout)] = "\n"
              /\ LET w == Words(SubSeq(stdout, 1, Len(stdout) - 1))
                     S == Entries(fs0, LsNode[1])
                 IN  /\ Len(w) = Cardinality(S)
                     /\ {w[i] : i \in 1..Len(w)} = S
        /\ (/\ LsNode # None
            /\ fs0[LsNode[1]].kind = "dir"
            /\ \E name \in Entries(fs0, LsNode[1]) : ~ValidUtf8(name)) =>
              /\ res = "failed"
              /\ stdout = <<>>
              /\ ErrorText = "failed to parse entry name {}"

\* `ls` typed in /a after an echo created /a/f: both names, in an order the
\* system chose
C14_Witness ==
    /\ Bare(K_ls) /\ res = "ok"
    /\ dir0 = P_a
    /\ stdout = <<"n", " ", "f", "\n">>

\* s has at least two characters, the first and the last both c
Surrounded(s, c) == Len(s) >= 2 /\ s[1] = c /\ s[Len(s)] = c

Trimmed(s) == s = <<>> \/ (~IsWhitespace(s[1]) /\ ~IsWhitespace(s[Len(s)]))

\* C15: for every string, unquoting the result of unquote changes nothing,
\* and the result of unquote is trimmed and is not enclosed in a pair of
\* double quotes or of single quotes.
C15_UnquoteIdempotent ==
    /\ uqStep >= 1 =>
          /\ Trimmed(uqOut)
          /\ ~Surrounded(uqOut, "\"")
          /\ ~Surrounded(uqOut, "'")
    /\ uqStep = 2 => uqOut = unquote(uqIn)

\* ""a"" unquoted twice: two nested pairs of the same kind
C15_Witness ==
    /\ uqStep = 2
    /\ uqIn = <<"\"", "\"", "a", "\"", "\"">>
    /\ uqOut = <<"a">>

\* the reference: trim; a string of two or more characters enclosed in double
\* quotes loses them and its interior is treated the same way; otherwise the
\* same for single quotes; otherwise the trimmed string
RECURSIVE unquoteRef(_)
unquoteRef(s) ==
    LET t == Trim(s)
    IN  IF Surrounded(t, "\"") THEN unquoteRef(SubSeq(t, 2, Len(t) - 1))
        ELSE IF Surrounded(t, "'") THEN unquoteRef(SubSeq(t, 2, Len(t) - 1))
        ELSE t

\* C18: for every string, unquote returns what the reference returns; so a
\* string with a quote on one side only, or a lone quote character, is only
\* trimmed.
C18_UnquoteIsReference ==
    uqStep = 1 =>
        /\ uqOut = unquoteRef(uqIn)
        /\ (~Surrounded(Trim(uqIn), "\"") /\ ~Surrounded(Trim(uqIn), "'")) =>
              uqOut = Trim(uqIn)

\* " 'a'" : a single-quoted word after whitespace inside double quotes
C18_Witness ==
    /\ uqStep = 1
    /\ uqIn = <<"\"", " ", "'", "a", "'", "\"">>
    /\ uqOut = <<"a">>

\* C16: whenever the loop is about to read a line, no handle a command opened
\* is still open, whatever the commands were and however they ended; while an
\* accept runs, only its listener, and then only its stream, is open.
C16_NoHandleOutlivesCommand ==
    /\ pc = "read" => handles = {}
    /\ pc = "exited" => handles = {}
    /\ pc = "accept" => handles = {ListenerHandle}
    /\ pc = "stream" => handles = {StreamHandle}
    /\ handles \subseteq opened

\* an accept on /s from /a has ended: it had opened the listener and a stream
C16_Witness ==
    /\ pc = "read" /\ res = "ok"
    /\ WithArg(K_accept)
    /\ dir = P_a
    /\ opened = {Handle(K_accept, <<"/", "s">>),
                 Handle(<<"s", "t", "r", "e", "a", "m">>, <<"/", "s">>)}
    /\ handles = {}

\* the node path p names in filesystem f can be opened
CanOpen(f, p) ==
    LET n == Lookup(target, f, p)
    IN  n # None /\ f[n[1]].mode # "none"

\* C17: once constructed, the working directory is an absolute path; it is
\* `/` until a cd adopts another, the path a successful cd adopts exists and
\* can be opened in the filesystem of that moment, no other line changes it,
\* and a cd whose resolved path does not exist or cannot be opened fails and
\* leaves the directory as it was.
C17_DirExistedWhenAdopted ==
    dir # <<>> =>
        /\ IsAbsolute(dir)
        /\ res = "none" => (dir = <<Sep>> /\ CanOpen(fs, dir))
        /\ (WithArg(K_cd) /\ res = "ok") =>
              (CanOpen(fs0, Resolved) /\ CanOpen(fs0, dir) /\ fs = fs0)
        /\ (WithArg(K_cd) /\ Handled /\ ~CanOpen(fs0, Resolved)) =>
              (res = "failed" /\ dir = dir0 /\ SaysError)
        /\ (res \in {"ok", "failed", "pending"}
            /\ ~(WithArg(K_cd) /\ res = "ok")) => dir = dir0

\* `cd n` typed in /a: /a/n exists and cannot be opened
C17_Witness ==
    /\ typed = A(K_cd, <<"n">>)
    /\ dir0 = P_a
    /\ res = "failed" /\ dir = P_a
    /\ Lookup(target, fs0, Resolved) # None
    /\ ErrorText = "failed to open {path}"

\* the channels an effect populates
Channels(e) == {ch \in {"dir", "out", "exit"} : e[ch] # None}

\* C19: an effect the dispatcher returns populates at most one channel: the
\* directory when and only when the line is a cd with an argument, the exit
\* code, always 0, when and only when it is exit, the output when and only
\* when it is accept, cat, help, ls or pwd; the effect of a blank line, of a
\* bare cd and of echo populates none.
C19_EffectChannels ==
    lastEff # None =>
        LET e == lastEff[1]
        IN  /\ Cardinality(Channels(e)) <= 1
            /\ e.dir # None <=> WithArg(K_cd)
            /\ e.exit # None <=> Bare(K_exit)
            /\ e.exit # None => e.exit = Some(0)
            /\ e.out # None <=> typed.kw \in OutputWords
            /\ (typed.kw = <<>> \/ Bare(K_cd) \/ typed.kw = K_echo) =>
                  Channels(e) = {}

\* the effect of an accept whose peer sent x y: output only
C19_Witness ==
    /\ WithArg(K_accept)
    /\ lastEff = Some(Effect(None, Some(<<"x", "y">>), None))
    /\ dir = P_a

====
